---- MODULE Spec2Model ----
(***************************************************************************)
(* AlumniConnect API (src/main.py): the endpoints signup, login,           *)
(* get_profile, update_profile, directory and events over the two store    *)
(* collections "user" and "event".                                         *)
(*                                                                         *)
(* Encoding.  A Python str that the code takes apart (email, name,         *)
(* company) is a sequence of one-character strings.  An Optional[T] value  *)
(* is a set with at most one element: {} is None, {v} is v.  A dict is a   *)
(* function from its keys to its values; the empty function <<>> is both   *)
(* the empty dict and None where the code only tests "not doc".  An        *)
(* ObjectId is a natural number drawn from a counter, and str(ObjectId) is *)
(* ToString of it.  A collection is the sequence of its documents in       *)
(* insertion (natural) order.                                              *)
(***************************************************************************)
EXTENDS Integers, Sequences, FiniteSets, TLC

VARIABLES db, users, events, nextId, call, resp, pre, nCalls, signupId, procs

vars == <<db, users, events, nextId, call, resp, pre, nCalls, signupId, procs>>

(***************************************************************************)
(* Bounds                                                                  *)
(***************************************************************************)
MaxCalls == 3       \* endpoint calls in one sequential run
MaxOptional == 1    \* non-null optional fields in one request body
MaxLimit == 2       \* largest limit passed to directory
NumProcs == 2       \* requests in flight at once in the interleaved runs

(***************************************************************************)
(* Input values                                                            *)
(***************************************************************************)
Emails == { <<"a", "@", "x">>, <<"a", "@", "y", "@", "z">>, <<"c">> }
Names == { <<"n">> }
Statuses == { "alumnus", "student" }
Phones == { <<"5">> }
Years == { 2020, 2021 }
Departments == { <<"d">> }
Companies == { <<"A", "b">>, <<"c">> }
Designations == { <<"e">> }
Patterns == { <<>>, <<"a">>, <<"b">>, <<".">> }
Limits == 0..MaxLimit

Opt(S) == {{}} \cup {{v} : v \in S}
TheVal(o) == CHOOSE v \in o : TRUE

NoDoc == <<>>

NonNullKeys(p) == {k \in DOMAIN p : p[k] # {}}

SignupPayload ==
    {p \in [name : {{v} : v \in Names}, email : {{v} : v \in Emails},
            status : {{v} : v \in Statuses}, phone : Opt(Phones),
            batch_year : Opt(Years), department : Opt(Departments),
            current_company : Opt(Companies), designation : Opt(Designations)] :
        Cardinality(NonNullKeys(p)) <= 3 + MaxOptional}

LoginPayload == [email : Emails]

ProfileUpdatePayload ==
    {p \in [name : Opt(Names), phone : Opt(Phones), batch_year : Opt(Years),
            department : Opt(Departments), current_company : Opt(Companies),
            designation : Opt(Designations), status : Opt(Statuses)] :
        Cardinality(NonNullKeys(p)) <= MaxOptional}

(***************************************************************************)
(* Helpers of the code and of the store driver                             *)
(***************************************************************************)
\* {k: v for k, v in payload.model_dump().items() if v is not None}
Dump(p) == [k \in NonNullKeys(p) |-> TheVal(p[k])]

\* mutant: the split is taken at the last "@"
SplitLast(e) ==
    LET ats == {i \in 1..Len(e) : e[i] = "@"}
        cut == IF ats = {} THEN Len(e) + 1
               ELSE CHOOSE i \in ats : \A j \in ats : i >= j
    IN SubSeq(e, 1, cut - 1)

\* email.split("@")[0]
SplitFirst(e) ==
    LET ats == {i \in 1..Len(e) : e[i] = "@"}
        cut == IF ats = {} THEN Len(e) + 1
               ELSE CHOOSE i \in ats : \A j \in ats : i <= j
    IN SubSeq(e, 1, cut - 1)

\* str(ObjectId)
Str(oid) == ToString(oid)

to_public(doc) ==
    IF DOMAIN doc = {} THEN NoDoc
    ELSE IF "_id" \in DOMAIN doc
         THEN [k \in (DOMAIN doc \ {"_id"}) \cup {"id"} |->
                   IF k = "id" THEN Str(doc["_id"]) ELSE doc[k]]
         ELSE doc

\* the documents of col that have field k equal to v, as indexes
Matching(col, k, v) == {i \in 1..Len(col) : k \in DOMAIN col[i] /\ col[i][k] = v}

Least(S) == CHOOSE i \in S : \A j \in S : i <= j

\* collection.find_one({k: v})
FindOne(col, k, v) ==
    IF Matching(col, k, v) = {} THEN NoDoc ELSE col[Least(Matching(col, k, v))]

\* mutant: the update replaces the document instead of setting fields
ReplaceFields(doc, data) ==
    [k \in DOMAIN data \cup (DOMAIN doc \cap {"_id"}) |->
        IF k \in DOMAIN data THEN data[k] ELSE doc[k]]

\* {"$set": data} applied to one document
SetFields(doc, data) ==
    [k \in DOMAIN doc \cup DOMAIN data |-> IF k \in DOMAIN data THEN data[k] ELSE doc[k]]

\* collection.update_one({k: v}, {"$set": data}): the first match is updated
UpdateOne(col, k, v, data) ==
    IF Matching(col, k, v) = {} THEN col
    ELSE [col EXCEPT ![Least(Matching(col, k, v))] = SetFields(@, data)]

\* mutant: the update reports a match whether or not there was one
MatchedAlways(col, k, v) == 1

\* res.matched_count of update_one
MatchedCount(col, k, v) == IF Matching(col, k, v) = {} THEN 0 ELSE 1

\* mutant: the collection has a unique index on email
InsertOneUnique(col, data, oid) ==
    IF "email" \in DOMAIN data /\ Matching(col, "email", data["email"]) # {}
    THEN col
    ELSE Append(col, [k \in DOMAIN data \cup {"_id"} |-> IF k = "_id" THEN oid ELSE data[k]])

\* collection.insert_one(data) with the generated ObjectId oid
InsertOne(col, data, oid) ==
    Append(col, [k \in DOMAIN data \cup {"_id"} |-> IF k = "_id" THEN oid ELSE data[k]])

UpperToLower == [A |-> "a", B |-> "b", C |-> "c"]

\* one character under the regex option "i"
Lower(c) == IF c \in DOMAIN UpperToLower THEN UpperToLower[c] ELSE c

\* {"$regex": pat, "$options": "i"} on the string s: an unanchored search in
\* which "." stands for any character and every other character for itself
RegexSearch(pat, s) ==
    \E i \in 1..(Len(s) - Len(pat) + 1) :
        \A j \in 1..Len(pat) : pat[j] = "." \/ Lower(pat[j]) = Lower(s[i + j - 1])

\* the query document of directory, applied to one user document
MatchesFilt(doc, company, batch_year) ==
    /\ (company # {} /\ TheVal(company) # <<>>) =>
           /\ "current_company" \in DOMAIN doc
           /\ RegexSearch(TheVal(company), doc["current_company"])
    /\ batch_year # {} =>
           /\ "batch_year" \in DOMAIN doc
           /\ doc["batch_year"] = TheVal(batch_year)

RECURSIVE Find(_, _, _)
\* collection.find(filt): the matching documents in natural order
Find(col, company, batch_year) ==
    IF col = <<>> THEN <<>>
    ELSE (IF MatchesFilt(Head(col), company, batch_year) THEN <<Head(col)>> ELSE <<>>)
             \o Find(Tail(col), company, batch_year)

\* cursor.limit(n) for n >= 0: a limit of 0 is no limit
CursorLimit(docs, n) ==
    IF n = 0 \/ n >= Len(docs) THEN docs ELSE SubSeq(docs, 1, n)

EventsLimit == 10

SampleEvent ==
    [title |-> "Annual Alumni Meet", date |-> "2025-02-15",
     description |-> "Reconnect with your batch and faculty", audience |-> "All"]

PublicAll(docs) == [i \in 1..Len(docs) |-> to_public(docs[i])]

HTTPException(code, detail) == [code |-> code, detail |-> detail]
Ok(body) == [code |-> 200, body |-> body]

\* a user document written by another client of the store (schemas.py, User)
SeedUser ==
    [_id |-> 1, name |-> <<"s">>, email |-> <<"a", "@", "x">>, status |-> "alumnus",
     batch_year |-> 2020, current_company |-> <<"A", "b">>, is_active |-> TRUE]

Snapshot == [users |-> users, events |-> events]

(***************************************************************************)
(* Endpoints, one call running to completion                               *)
(***************************************************************************)
\* mutant: signup inserts without looking the email up
signup_NoLookup(payload) ==
    /\ nCalls < MaxCalls
    /\ nCalls' = nCalls + 1
    /\ pre' = Snapshot
    /\ call' = [op |-> "signup", payload |-> payload]
    /\ UNCHANGED <<db, events, procs, signupId>>
    /\ IF ~db
       THEN /\ resp' = HTTPException(500, "Database not configured")
            /\ UNCHANGED <<users, nextId>>
       ELSE /\ users' = InsertOne(users, Dump(payload), nextId)
            /\ nextId' = nextId + 1
            /\ resp' = Ok([token |-> TheVal(payload.email),
                           user |-> to_public(FindOne(users', "_id", nextId))])

signup(payload) ==
    /\ nCalls < MaxCalls
    /\ nCalls' = nCalls + 1
    /\ pre' = Snapshot
    /\ call' = [op |-> "signup", payload |-> payload]
    /\ UNCHANGED <<db, events, procs>>
    /\ IF ~db
       THEN /\ resp' = HTTPException(500, "Database not configured")
            /\ UNCHANGED <<users, nextId, signupId>>
       ELSE LET email == TheVal(payload.email)
                existing == FindOne(users, "email", email)
                data == Dump(payload)
            IN IF DOMAIN existing # {}
               THEN /\ users' = UpdateOne(users, "_id", existing["_id"], data)
                    /\ resp' = Ok([token |-> email,
                                   user |-> to_public(FindOne(users', "_id", existing["_id"]))])
                    /\ UNCHANGED <<nextId, signupId>>
               ELSE /\ users' = InsertOne(users, data, nextId)
                    /\ nextId' = nextId + 1
                    /\ resp' = Ok([token |-> email,
                                   user |-> to_public(FindOne(users', "_id", nextId))])
                    /\ signupId' = [signupId EXCEPT ![email] = {resp'.body.user.id}]

\* mutant: login provisions a record on every call
login_AlwaysProvision(payload) ==
    /\ nCalls < MaxCalls
    /\ nCalls' = nCalls + 1
    /\ pre' = Snapshot
    /\ call' = [op |-> "login", payload |-> payload]
    /\ UNCHANGED <<db, events, procs, signupId>>
    /\ IF ~db
       THEN /\ resp' = HTTPException(500, "Database not configured")
            /\ UNCHANGED <<users, nextId>>
       ELSE /\ users' = InsertOne(users,
                             [email |-> payload.email, status |-> "student",
                              name |-> SplitFirst(payload.email)], nextId)
            /\ nextId' = nextId + 1
            /\ resp' = Ok([token |-> payload.email,
                           user |-> to_public(FindOne(users', "_id", nextId))])

login(payload) ==
    /\ nCalls < MaxCalls
    /\ nCalls' = nCalls + 1
    /\ pre' = Snapshot
    /\ call' = [op |-> "login", payload |-> payload]
    /\ UNCHANGED <<db, events, procs, signupId>>
    /\ IF ~db
       THEN /\ resp' = HTTPException(500, "Database not configured")
            /\ UNCHANGED <<users, nextId>>
       ELSE LET doc == FindOne(users, "email", payload.email)
            IN IF DOMAIN doc = {}
               THEN /\ users' = InsertOne(users,
                                    [email |-> payload.email, status |-> "student",
                                     name |-> SplitFirst(payload.email)], nextId)
                    /\ nextId' = nextId + 1
                    /\ resp' = Ok([token |-> payload.email,
                                   user |-> to_public(FindOne(users', "_id", nextId))])
               ELSE /\ resp' = Ok([token |-> payload.email, user |-> to_public(doc)])
                    /\ UNCHANGED <<users, nextId>>

get_profile(email) ==
    /\ nCalls < MaxCalls
    /\ nCalls' = nCalls + 1
    /\ pre' = Snapshot
    /\ call' = [op |-> "get_profile", email |-> email]
    /\ UNCHANGED <<db, users, events, nextId, procs, signupId>>
    /\ IF ~db
       THEN resp' = HTTPException(500, "Database not configured")
       ELSE LET doc == FindOne(users, "email", email)
            IN IF DOMAIN doc = {}
               THEN resp' = HTTPException(404, "User not found")
               ELSE resp' = Ok(to_public(doc))

\* mutant: an update without fields is applied as a no-op
update_profile_NoCheck(email, payload) ==
    /\ nCalls < MaxCalls
    /\ nCalls' = nCalls + 1
    /\ pre' = Snapshot
    /\ call' = [op |-> "update_profile", email |-> email, payload |-> payload]
    /\ UNCHANGED <<db, events, nextId, procs, signupId>>
    /\ IF ~db
       THEN /\ resp' = HTTPException(500, "Database not configured")
            /\ UNCHANGED users
       ELSE /\ users' = UpdateOne(users, "email", email, Dump(payload))
            /\ IF MatchedCount(users, "email", email) = 0
               THEN resp' = HTTPException(404, "User not found")
               ELSE resp' = Ok(to_public(FindOne(users', "email", email)))

update_profile(email, payload) ==
    /\ nCalls < MaxCalls
    /\ nCalls' = nCalls + 1
    /\ pre' = Snapshot
    /\ call' = [op |-> "update_profile", email |-> email, payload |-> payload]
    /\ UNCHANGED <<db, events, nextId, procs, signupId>>
    /\ IF ~db
       THEN /\ resp' = HTTPException(500, "Database not configured")
            /\ UNCHANGED users
       ELSE LET updates == Dump(payload)
            IN IF DOMAIN updates = {}
               THEN /\ resp' = HTTPException(400, "No fields to update")
                    /\ UNCHANGED users
               ELSE /\ users' = UpdateOne(users, "email", email, updates)
                    /\ IF MatchedCount(users, "email", email) = 0
                       THEN resp' = HTTPException(404, "User not found")
                       ELSE resp' = Ok(to_public(FindOne(users', "email", email)))

directory(company, batch_year, limit) ==
    /\ nCalls < MaxCalls
    /\ nCalls' = nCalls + 1
    /\ pre' = Snapshot
    /\ call' = [op |-> "directory", company |-> company, batch_year |-> batch_year,
                limit |-> limit]
    /\ UNCHANGED <<db, users, events, nextId, procs, signupId>>
    /\ IF ~db
       THEN resp' = HTTPException(500, "Database not configured")
       ELSE resp' = Ok(PublicAll(CursorLimit(Find(users, company, batch_year), limit)))

\* mutant: events seeds the sample on every call
events_Reseed ==
    /\ nCalls < MaxCalls
    /\ nCalls' = nCalls + 1
    /\ pre' = Snapshot
    /\ call' = [op |-> "events"]
    /\ UNCHANGED <<db, users, procs, signupId>>
    /\ IF ~db
       THEN /\ resp' = Ok(<<SampleEvent>>)
            /\ UNCHANGED <<events, nextId>>
       ELSE /\ events' = InsertOne(events, SampleEvent, nextId)
            /\ nextId' = nextId + 1
            /\ resp' = Ok(PublicAll(CursorLimit(events', EventsLimit)))

events_ ==
    /\ nCalls < MaxCalls
    /\ nCalls' = nCalls + 1
    /\ pre' = Snapshot
    /\ call' = [op |-> "events"]
    /\ UNCHANGED <<db, users, procs, signupId>>
    /\ IF ~db
       THEN /\ resp' = Ok(<<SampleEvent>>)
            /\ UNCHANGED <<events, nextId>>
       ELSE LET existing == CursorLimit(events, EventsLimit)
            IN IF existing = <<>>
               THEN /\ events' = InsertOne(events, SampleEvent, nextId)
                    /\ nextId' = nextId + 1
                    /\ resp' = Ok(PublicAll(CursorLimit(events', EventsLimit)))
               ELSE /\ resp' = Ok(PublicAll(existing))
                    /\ UNCHANGED <<events, nextId>>

(***************************************************************************)
(* signup and login as the store operations they issue, one per step, so   *)
(* that the calls of several requests interleave                           *)
(***************************************************************************)
Local(p, rec) == procs' = [procs EXCEPT ![p] = rec]

ConcFrame == UNCHANGED <<db, events, call, resp, pre, nCalls, signupId>>

\* lines 110-113: the request arrives and the handler checks the store handle
LoginStart(p, payload) ==
    /\ procs[p].pc = "idle"
    /\ IF ~db
       THEN Local(p, [pc |-> "done", op |-> "login", email |-> payload.email,
                      resp |-> HTTPException(500, "Database not configured")])
       ELSE Local(p, [pc |-> "login_find", op |-> "login", email |-> payload.email])
    /\ UNCHANGED <<users, nextId>>
    /\ ConcFrame

\* line 114-115: find_one by email
LoginFind(p) ==
    /\ procs[p].pc = "login_find"
    /\ LET doc == FindOne(users, "email", procs[p].email)
       IN IF DOMAIN doc = {}
          THEN Local(p, [procs[p] EXCEPT !.pc = "login_insert"])
          ELSE Local(p, [pc |-> "done", op |-> "login", email |-> procs[p].email,
                         resp |-> Ok([token |-> procs[p].email, user |-> to_public(doc)])])
    /\ UNCHANGED <<users, nextId>>
    /\ ConcFrame

\* line 117: insert_one of the minimal record
LoginInsert(p) ==
    /\ procs[p].pc = "login_insert"
    /\ users' = InsertOne(users, [email |-> procs[p].email, status |-> "student",
                                  name |-> SplitFirst(procs[p].email)], nextId)
    /\ nextId' = nextId + 1
    /\ Local(p, [pc |-> "login_reread", op |-> "login", email |-> procs[p].email,
                 observed |-> "absent", oid |-> nextId])
    /\ ConcFrame

\* lines 118-119: find_one by _id and the response
LoginReread(p) ==
    /\ procs[p].pc = "login_reread"
    /\ Local(p, [pc |-> "done", op |-> "login", email |-> procs[p].email,
                 observed |-> "absent",
                 resp |-> Ok([token |-> procs[p].email,
                              user |-> to_public(FindOne(users, "_id", procs[p].oid))])])
    /\ UNCHANGED <<users, nextId>>
    /\ ConcFrame

\* lines 94-97
SignupStart(p, payload) ==
    /\ procs[p].pc = "idle"
    /\ IF ~db
       THEN Local(p, [pc |-> "done", op |-> "signup", email |-> TheVal(payload.email),
                      resp |-> HTTPException(500, "Database not configured")])
       ELSE Local(p, [pc |-> "signup_find", op |-> "signup",
                      email |-> TheVal(payload.email), payload |-> payload])
    /\ UNCHANGED <<users, nextId>>
    /\ ConcFrame

\* lines 98-100: find_one by email, then the branch
SignupFind(p) ==
    /\ procs[p].pc = "signup_find"
    /\ LET existing == FindOne(users, "email", procs[p].email)
       IN IF DOMAIN existing # {}
          THEN Local(p, [pc |-> "signup_update", op |-> "signup", email |-> procs[p].email,
                         payload |-> procs[p].payload, oid |-> existing["_id"]])
          ELSE Local(p, [procs[p] EXCEPT !.pc = "signup_insert"])
    /\ UNCHANGED <<users, nextId>>
    /\ ConcFrame

\* line 101: update_one by _id
SignupUpdate(p) ==
    /\ procs[p].pc = "signup_update"
    /\ users' = UpdateOne(users, "_id", procs[p].oid, Dump(procs[p].payload))
    /\ Local(p, [pc |-> "signup_reread", op |-> "signup", email |-> procs[p].email,
                 observed |-> "present", oid |-> procs[p].oid])
    /\ UNCHANGED nextId
    /\ ConcFrame

\* line 104: insert_one
SignupInsert(p) ==
    /\ procs[p].pc = "signup_insert"
    /\ users' = InsertOne(users, Dump(procs[p].payload), nextId)
    /\ nextId' = nextId + 1
    /\ Local(p, [pc |-> "signup_reread", op |-> "signup", email |-> procs[p].email,
                 observed |-> "absent", oid |-> nextId])
    /\ ConcFrame

\* lines 102, 105, 106: find_one by _id and the response
SignupReread(p) ==
    /\ procs[p].pc = "signup_reread"
    /\ Local(p, [pc |-> "done", op |-> "signup", email |-> procs[p].email,
                 observed |-> procs[p].observed,
                 resp |-> Ok([token |-> procs[p].email,
                              user |-> to_public(FindOne(users, "_id", procs[p].oid))])])
    /\ UNCHANGED <<users, nextId>>
    /\ ConcFrame

Procs == 1..NumProcs

Init ==
    /\ db \in BOOLEAN
    /\ users \in {<<>>, <<SeedUser>>}
    /\ events = <<>>
    /\ nextId = Len(users) + 1
    /\ call = [op |-> "none"]
    /\ resp = [code |-> 0]
    /\ pre = [users |-> users, events |-> events]
    /\ nCalls = 0
    /\ signupId = [e \in Emails |-> {}]
    /\ procs = [p \in Procs |-> [pc |-> "idle"]]

Next ==
    \/ \E payload \in SignupPayload : signup(payload)
    \/ \E payload \in LoginPayload : login(payload)
    \/ \E email \in Emails : get_profile(email)
    \/ \E email \in Emails, payload \in ProfileUpdatePayload : update_profile(email, payload)
    \/ \E company \in Opt(Patterns), batch_year \in Opt(Years), limit \in Limits :
           directory(company, batch_year, limit)
    \/ events_

Spec == Init /\ [][Next]_vars

NextConc ==
    \/ \E p \in Procs, payload \in LoginPayload : LoginStart(p, payload)
    \/ \E p \in Procs : LoginFind(p)
    \/ \E p \in Procs : LoginInsert(p)
    \/ \E p \in Procs : LoginReread(p)
    \/ \E p \in Procs, payload \in SignupPayload : SignupStart(p, payload)
    \/ \E p \in Procs : SignupFind(p)
    \/ \E p \in Procs : SignupUpdate(p)
    \/ \E p \in Procs : SignupInsert(p)
    \/ \E p \in Procs : SignupReread(p)

SpecConc == Init /\ [][NextConc]_vars

(***************************************************************************)
(* Vocabulary of the properties                                            *)
(***************************************************************************)
Range(f) == {f[i] : i \in DOMAIN f}

WithEmail(col, e) ==
    {i \in 1..Len(col) : "email" \in DOMAIN col[i] /\ col[i]["email"] = e}

UniqueEmails(col) ==
    \A i, j \in 1..Len(col) :
        ("email" \in DOMAIN col[i] /\ "email" \in DOMAIN col[j]
            /\ col[i]["email"] = col[j]["email"]) => i = j

\* n is the part of e before its first "@" (all of e when it has none)
IsLocalPart(n, e) ==
    /\ Len(n) <= Len(e)
    /\ \A i \in 1..Len(n) : n[i] = e[i] /\ n[i] # "@"
    /\ Len(n) = Len(e) \/ e[Len(n) + 1] = "@"

\* pat occurs in s as a substring, letter case ignored
ContainsCI(s, pat) ==
    \E i \in 1..(Len(s) - Len(pat) + 1) :
        \A j \in 1..Len(pat) : Lower(pat[j]) = Lower(s[i + j - 1])

\* r is document d as the responses show it
IsPublicOf(r, d) ==
    /\ DOMAIN r = (DOMAIN d \ {"_id"}) \cup {"id"}
    /\ r["id"] = ToString(d["_id"])
    /\ \A k \in DOMAIN d \ {"_id"} : r[k] = d[k]

Min(a, b) == IF a <= b THEN a ELSE b

TargetEmail ==
    IF call.op = "signup" THEN TheVal(call.payload.email)
    ELSE IF call.op = "login" THEN call.payload.email
    ELSE call.email

TargetIndex == CHOOSE i \in WithEmail(pre.users, TargetEmail) : TRUE

(***************************************************************************)
(* C1: with the store available, a signup whose email already has a user   *)
(* record and a successful update_profile merge: the matched record holds  *)
(* the supplied value of every non-null payload field and its prior value  *)
(* of every other field, every other record is as before, and no record is *)
(* added or removed.                                                       *)
(***************************************************************************)
C1_Applies ==
    /\ db
    /\ call.op \in {"signup", "update_profile"}
    /\ resp.code = 200
    /\ WithEmail(pre.users, TargetEmail) # {}

C1_Merge ==
    C1_Applies =>
        LET i == TargetIndex
            given == NonNullKeys(call.payload)
        IN /\ Len(users) = Len(pre.users)
           /\ \A j \in 1..Len(users) : j # i => users[j] = pre.users[j]
           /\ DOMAIN users[i] = DOMAIN pre.users[i] \cup given
           /\ \A k \in given : users[i][k] = TheVal(call.payload[k])
           /\ \A k \in DOMAIN pre.users[i] \ given : users[i][k] = pre.users[i][k]

\* a signup that overwrites one stored field and keeps another
C1_Witness ==
    /\ C1_Applies
    /\ call.op = "signup"
    /\ Len(users) >= 2
    /\ LET i == TargetIndex
           given == NonNullKeys(call.payload)
       IN /\ \E k \in given \cap DOMAIN pre.users[i] :
                 pre.users[i][k] # TheVal(call.payload[k])
          /\ \E k \in given : k \notin DOMAIN pre.users[i]
          /\ \E k \in DOMAIN pre.users[i] : k \notin given \cup {"_id"}

(***************************************************************************)
(* C2: with the store available, once a signup has created the record of   *)
(* an email, every later login with that email returns a user whose id is  *)
(* the id that signup returned.                                            *)
(***************************************************************************)
C2_LoginAfterSignup ==
    /\ db
    /\ call.op = "login"
    /\ signupId[call.payload.email] # {}

C2_SameId ==
    C2_LoginAfterSignup =>
        /\ resp.code = 200
        /\ "id" \in DOMAIN resp.body.user
        /\ resp.body.user["id"] \in signupId[call.payload.email]

\* the login is the third call, after the signup and one more call
C2_Witness ==
    /\ C2_LoginAfterSignup
    /\ nCalls >= 3
    /\ Len(users) >= 2

(***************************************************************************)
(* C3: with the store available, login is find-or-provision: for an email  *)
(* without a record it inserts exactly one record with exactly the fields  *)
(* email, status = "student" and name = the part of the email before the   *)
(* first "@", and returns it; for an email with a record it returns that   *)
(* record and leaves the user collection unchanged.                        *)
(***************************************************************************)
C3_FindOrProvision ==
    (db /\ call.op = "login") =>
        /\ resp.code = 200
        /\ resp.body.token = call.payload.email
        /\ IF WithEmail(pre.users, call.payload.email) = {}
           THEN /\ Len(users) = Len(pre.users) + 1
                /\ SubSeq(users, 1, Len(pre.users)) = pre.users
                /\ LET new == users[Len(users)]
                   IN /\ DOMAIN new = {"_id", "email", "status", "name"}
                      /\ new["email"] = call.payload.email
                      /\ new["status"] = "student"
                      /\ IsLocalPart(new["name"], call.payload.email)
                      /\ \A i \in 1..Len(pre.users) : pre.users[i]["_id"] # new["_id"]
                      /\ IsPublicOf(resp.body.user, new)
           ELSE /\ users = pre.users
                /\ IsPublicOf(resp.body.user, users[TargetIndex])

\* an email with two "@" is provisioned next to an existing record
C3_Witness ==
    /\ db
    /\ call.op = "login"
    /\ call.payload.email = <<"a", "@", "y", "@", "z">>
    /\ Len(pre.users) >= 1
    /\ Len(users) = Len(pre.users) + 1

(***************************************************************************)
(* C4: with the store available, an update_profile whose body has no       *)
(* non-null field fails with 400 and leaves the user collection as it was. *)
(***************************************************************************)
C4_EmptyUpdate ==
    /\ db
    /\ call.op = "update_profile"
    /\ \A k \in DOMAIN call.payload : call.payload[k] = {}

C4_Rejected ==
    C4_EmptyUpdate =>
        /\ resp.code = 400
        /\ users = pre.users
        /\ events = pre.events

\* the empty update names an email that has a record
C4_Witness ==
    /\ C4_EmptyUpdate
    /\ WithEmail(pre.users, call.email) # {}

(***************************************************************************)
(* C5 as stated: with the store available, every update_profile against an *)
(* email that has no matching user record fails with 404.                  *)
(***************************************************************************)
C5_NoMatch ==
    /\ db
    /\ call.op = "update_profile"
    /\ WithEmail(pre.users, call.email) = {}

C5_Original == C5_NoMatch => resp.code = 404

(***************************************************************************)
(* C5 amended: with the store available, every update_profile whose body   *)
(* has at least one non-null field, against an email that has no matching  *)
(* user record, fails with 404.                                            *)
(***************************************************************************)
C5_NotFound ==
    (C5_NoMatch /\ NonNullKeys(call.payload) # {}) => resp.code = 404

\* other records exist, none with the email of the update
C5_Witness ==
    /\ C5_NoMatch
    /\ NonNullKeys(call.payload) # {}
    /\ Len(pre.users) >= 1

(***************************************************************************)
(* C6: with the store available, directory returns only user records that  *)
(* satisfy every present filter (company as a case-insensitive substring   *)
(* of current_company, batch_year by equality), and the number of records  *)
(* returned is min(limit, number of matching records).                     *)
(***************************************************************************)
C6_Satisfies(d, company, batch_year) ==
    /\ company # {} =>
           /\ "current_company" \in DOMAIN d
           /\ ContainsCI(d["current_company"], TheVal(company))
    /\ batch_year # {} =>
           /\ "batch_year" \in DOMAIN d
           /\ d["batch_year"] = TheVal(batch_year)

C6_Directory ==
    (db /\ call.op = "directory") =>
        /\ resp.code = 200
        /\ \A i \in 1..Len(resp.body) :
               C6_Satisfies(resp.body[i], call.company, call.batch_year)
        /\ Len(resp.body) =
               Min(call.limit,
                   Cardinality({i \in 1..Len(users) :
                                   C6_Satisfies(users[i], call.company, call.batch_year)}))

(***************************************************************************)
(* C7: with the store available and calls one after another, an events     *)
(* call on an empty event collection leaves exactly one event record and   *)
(* returns it, and every later events call returns that same single record *)
(* without inserting another.                                              *)
(***************************************************************************)
C7_EventsCall == db /\ call.op = "events"

C7_SeedOnce ==
    C7_EventsCall =>
        /\ resp.code = 200
        /\ Len(events) = 1
        /\ Len(resp.body) = 1
        /\ IsPublicOf(resp.body[1], events[1])
        /\ pre.events # <<>> => events = pre.events

\* a second events call
C7_Witness ==
    /\ C7_EventsCall
    /\ pre.events # <<>>

(***************************************************************************)
(* C8: every user or event record returned by signup, login, get_profile,  *)
(* update_profile, directory or events, in every store state including     *)
(* store unavailable, carries the key id holding the string form of its    *)
(* store identifier and does not carry the key _id.                        *)
(***************************************************************************)
Returned ==
    IF resp.code # 200 THEN {}
    ELSE IF call.op \in {"signup", "login"} THEN {resp.body.user}
    ELSE IF call.op \in {"get_profile", "update_profile"} THEN {resp.body}
    ELSE IF call.op \in {"directory", "events"} THEN Range(resp.body)
    ELSE {}

C8_IdOnly ==
    \A r \in Returned :
        /\ "id" \in DOMAIN r
        /\ "_id" \notin DOMAIN r
        /\ \E d \in Range(users) \cup Range(events) : r["id"] = ToString(d["_id"])

(***************************************************************************)
(* C9: when two login (or signup) calls for the same unseen email          *)
(* interleave at the granularity of store operations, both can observe     *)
(* "not found" and both insert: whenever two calls have both passed their  *)
(* insert for one email, the collection holds two records with that email. *)
(***************************************************************************)
Inserted(p) ==
    /\ procs[p].pc \in {"login_reread", "signup_reread", "done"}
    /\ "observed" \in DOMAIN procs[p]
    /\ procs[p].observed = "absent"

C9_BothInsert ==
    \A p, q \in Procs :
        (p # q /\ Inserted(p) /\ Inserted(q) /\ procs[p].email = procs[q].email) =>
            Cardinality(WithEmail(users, procs[p].email)) >= 2

\* two login calls have completed and left two records with one email
C9_Witness ==
    /\ \E i, j \in 1..Len(users) : i # j /\ users[i]["email"] = users[j]["email"]
    /\ \E p, q \in Procs :
           /\ p # q
           /\ procs[p].pc = "done" /\ procs[q].pc = "done"
           /\ procs[p].op = "login" /\ procs[q].op = "login"
           /\ Inserted(p) /\ Inserted(q)
           /\ procs[p].email = procs[q].email

(***************************************************************************)
(* C10: when every call runs to completion before the next starts, from a  *)
(* user collection in which no two records share an email, no two user     *)
(* records ever share an email and the number of user records never        *)
(* decreases.                                                              *)
(***************************************************************************)
C10_UniqueAndGrowing ==
    /\ UniqueEmails(users)
    /\ Len(users) >= Len(pre.users)

\* every email of the model has its record, made by login and by signup
C10_Witness ==
    /\ db
    /\ Len(users) = Cardinality(Emails)
    /\ call.op \in {"signup", "login"}
    /\ Len(pre.users) < Len(users)
====
